---- MODULE Spec2Model ----
(***************************************************************************)
(* MusicStream: the repository-to-library import / synchronisation engine. *)
(*                                                                         *)
(* The model covers the three handlers that write the library tables       *)
(*   AddStreamingLinkModal.handleSubmit   ("add-source" import)            *)
(*   AdminBulkImportModal.handleSubmit    (bulk import)                    *)
(*   LibraryPage.handleRefreshSource      (refresh)                        *)
(* together with GitHubService (URL parsing, scanning, unique links) and   *)
(* the tables, constraints and row-level-security policies of the          *)
(* migrations.  Every action is the code of one handler between two        *)
(* awaits: the awaits (database requests, remote fetches, the timer) are   *)
(* the only points at which another session can run.                       *)
(***************************************************************************)
EXTENDS Naturals, Integers, Sequences, FiniteSets, TLC

VARIABLES
    sources,    \* rows of table streaming_sources
    playlists,  \* rows of table playlists
    songs,      \* rows of table songs
    clock,      \* the value Date.now() returns
    ops,        \* number of handler invocations started so far
    faults,     \* number of injected request failures so far
    sess,       \* per browser session: the handler in flight and its locals
                \* (in SyncSpec: per handler running in the one page)
    refreshing  \* per page: the React state `refreshing` of LibraryPage

vars == <<sources, playlists, songs, clock, ops, faults, sess, refreshing>>

(***************************************************************************)
(* Bounds of the model.                                                    *)
(***************************************************************************)
MaxOps == 2
MaxFaults == 1

Null == "null"

Users == {"u1", "u2"}
Sessions == {"s1", "s2"}

(***************************************************************************)
(* URLs.  A URL https://github.com/<seg>/<seg>/... is the sequence of its  *)
(* path segments; a segment is its text and whether it ends in ".git".     *)
(***************************************************************************)
Seg(n, g) == [n |-> n, git |-> g]

UrlMusic == <<Seg("alice", FALSE), Seg("music", FALSE)>>
UrlMusicGit == <<Seg("alice", FALSE), Seg("music", TRUE)>>
UrlEmpty == <<Seg("alice", FALSE), Seg("empty", FALSE)>>
UrlBad == <<Seg("alice", FALSE)>>

\* src/unnamed/part_002:37-40  /^https:\/\/github\.com\/[\w\-\.]+\/[\w\-\.]+/
githubUrlPattern(url) == Len(url) >= 2

\* GitHubService.parseGitHubUrl: owner is the first segment as written, repo
\* the second one with a trailing ".git" removed; null when there is no match.
NullRepo == [owner |-> Seg(Null, FALSE), repo |-> Null]
parseGitHubUrl(url) ==
    IF Len(url) < 2 THEN NullRepo
    ELSE [owner |-> url[1], repo |-> url[2].n]

\* AdminBulkImportModal.generateSourceName
generateSourceName(url) ==
    LET repoInfo == parseGitHubUrl(url)
    IN  IF repoInfo = NullRepo THEN <<"Unknown Repository">>
        ELSE <<repoInfo.owner.n, "/", repoInfo.repo>>

\* GitHubService.generateUniqueLink in a page whose window.location.origin is
\* origin: origin + "/play/" + btoa(owner/repo/path)
generateUniqueLinkAt(origin, owner, repo, filePath) ==
    <<origin, "play", owner, repo, filePath>>

\* the origins the application is served from; the handlers of Spec, ConcSpec
\* and SyncSpec run in pages served from Origin
Origin == "origin"
Origins == {Origin, "preview"}
generateUniqueLink(owner, repo, filePath) ==
    generateUniqueLinkAt(Origin, owner, repo, filePath)

\* AddStreamingLinkModal: `${uniqueLink}_${user.id}_${Date.now()}`
perUserLink(uniqueLink, user, now) == uniqueLink \o <<user, now>>

(***************************************************************************)
(* The remote repositories (the content-listing API).                      *)
(***************************************************************************)
File(stem, ext, dir) ==
    [name |-> [words |-> stem, ext |-> ext], path |-> <<dir, stem, ext>>,
     type |-> "file", download_url |-> TRUE]
Dir(stem) ==
    [name |-> [words |-> stem, ext |-> ""], path |-> <<stem>>,
     type |-> "dir", download_url |-> FALSE]
SubDir(stem, dir) ==
    [name |-> [words |-> stem, ext |-> ""], path |-> <<dir, stem>>,
     type |-> "dir", download_url |-> FALSE]

\* the root listing of a repository
RemoteRoot(repo) ==
    IF repo = "music"
    THEN <<Dir(<<"rock", "hits">>),
           File(<<"intro">>, "mp3", <<>>),
           Dir(<<"jazz">>),
           Dir(<<"docs">>)>>
    ELSE <<Dir(<<"docs">>), Dir(<<"void">>), File(<<"readme">>, "txt", <<>>)>>

\* the listing of one directory
RemoteDir(repo, path) ==
    IF repo = "music" /\ path = <<<<"rock", "hits">>>>
    THEN <<File(<<"song", "one">>, "mp3", <<"rock", "hits">>),
           File(<<"notes">>, "txt", <<"rock", "hits">>),
           File(<<"song", "two">>, "FLAC", <<"rock", "hits">>)>>
    ELSE IF repo = "music" /\ path = <<<<"jazz">>>>
    THEN <<SubDir(<<"live">>, <<"jazz">>),
           File(<<"blue">>, "ogg", <<"jazz">>)>>
    ELSE IF repo = "music" /\ path = <<<<"jazz">>, <<"live">>>>
    THEN <<File(<<"gig">>, "mp3", <<"jazz", "live">>)>>
    ELSE IF path = <<<<"docs">>>>
    THEN <<File(<<"cover">>, "jpg", <<"docs">>)>>
    ELSE <<>>

Repos == {"music", "empty"}
RootDirs(repo) ==
    {RemoteRoot(repo)[i].path : i \in {j \in DOMAIN RemoteRoot(repo) :
                                          RemoteRoot(repo)[j].type = "dir"}}

(***************************************************************************)
(* GitHubService.scanRepositoryStructure                                   *)
(***************************************************************************)
AUDIO_EXTENSIONS == {"mp3", "wav", "flac", "aac", "ogg", "m4a", "wma"}

\* String.prototype.toLowerCase on the extensions that occur
toLowerCase(s) ==
    CASE s = "FLAC" -> "flac"
      [] s = "MP3" -> "mp3"
      [] OTHER -> s

\* /\b\w/g -> toUpperCase, on the words that occur
Capitalize(w) ==
    CASE w = "rock" -> "Rock" [] w = "hits" -> "Hits" [] w = "jazz" -> "Jazz"
      [] w = "song" -> "Song" [] w = "one" -> "One" [] w = "two" -> "Two"
      [] w = "blue" -> "Blue" [] w = "docs" -> "Docs" [] w = "void" -> "Void"
      [] OTHER -> w

\* extractSongTitle: extension removed, "_" and "-" turned into spaces, every
\* word capitalised
extractSongTitle(name) == [i \in DOMAIN name.words |-> Capitalize(name.words[i])]

\* formatPlaylistName
formatPlaylistName(name) == [i \in DOMAIN name.words |-> Capitalize(name.words[i])]

\* the filter without the test of the extension
isAnyFile(item) == item.type = "file"

isAudioFile(item) ==
    item.type = "file" /\ toLowerCase(item.name.ext) \in AUDIO_EXTENSIONS

\* the songs array built from one directory listing
dirSongs(dirContents) ==
    LET audioFiles == SelectSeq(dirContents, isAudioFile)
        withUrl == SelectSeq(audioFiles, LAMBDA f : f.download_url)
    IN  [i \in DOMAIN withUrl |->
            [name |-> extractSongTitle(withUrl[i].name),
             path |-> withUrl[i].path,
             downloadUrl |-> withUrl[i].path]]

RECURSIVE scanDirs(_, _, _)
\* the loop over the root directories; failed: the directories whose
\* listing request fails
scanDirs(repo, directories, failed) ==
    IF directories = <<>> THEN <<>>
    ELSE LET dir == Head(directories)
             rest == scanDirs(repo, Tail(directories), failed)
             songsOf == dirSongs(RemoteDir(repo, dir.path))
         IN  IF dir.path \in failed THEN rest
             ELSE IF Len(songsOf) > 0
                  THEN <<[name |-> formatPlaylistName(dir.name),
                          path |-> dir.path,
                          songs |-> songsOf]>> \o rest
                  ELSE rest

\* the catalog of a scan whose root listing succeeds
scanRepositoryStructure(repo, failed) ==
    LET rootContents == RemoteRoot(repo)
        directories == SelectSeq(rootContents, LAMBDA item : item.type = "dir")
    IN  scanDirs(repo, directories, failed)

(***************************************************************************)
(* The tables (supabase/migrations).  Ids are gen_random_uuid(): fresh.    *)
(* No row of these tables is deleted by the three handlers, so the number  *)
(* of rows plus one is fresh.                                              *)
(***************************************************************************)
\* the collection name a user types into the form
typedName(user) == <<"library of", user>>
DefaultDuration == 180

NoSource == 0
NoPlaylist == 0
NoSong == [id |-> 0, playlist_id |-> 0]

\* the policy of the first migration: "Users can manage own streaming sources"
canReadOwnSource(user, s) == s.created_by = user

\* policy "All users can read streaming sources": USING (true)
canReadSource(user, s) == TRUE

\* .from('streaming_sources').select('id, name').eq('drive_link', link)
selectSourcesByLink(link, user) ==
    {s \in sources : s.drive_link = link /\ canReadSource(user, s)}

\* the guard query with the user compared to the creator of the source
selectSourcesCreatedByUser(link, user) ==
    {s \in sources : /\ s.drive_link = link
                     /\ s.created_by = user
                     /\ \E p \in playlists : p.source_id = s.id}

\* .from('streaming_sources').select(`id, name, playlists!inner(id, user_id)`)
\*   .eq('drive_link', link).eq('playlists.user_id', user)
selectSourcesWithUserPlaylists(link, user) ==
    {s \in sources : /\ s.drive_link = link
                     /\ canReadSource(user, s)
                     /\ \E p \in playlists : p.source_id = s.id /\ p.user_id = user}

\* .from('streaming_sources').insert([{name, drive_link, created_by, last_synced}])
\* streaming_sources has a primary key on id and no other uniqueness constraint
newSourceRow(name, link, user, now) ==
    [id |-> Cardinality(sources) + 1, name |-> name, drive_link |-> link,
     created_by |-> user, last_synced |-> now]

\* .from('streaming_sources').update({last_synced}).eq('id', id) under the
\* policy "Creators can update own streaming sources": rows of other creators
\* are not visible to the update, which then changes nothing and reports no error
updateLastSynced(id, user, now) ==
    {IF s.id = id /\ s.created_by = user THEN [s EXCEPT !.last_synced = now] ELSE s
        : s \in sources}

\* .from('playlists').insert([{user_id, source_id, name, folder_path}])
newPlaylistRow(user, sourceId, name, path) ==
    [id |-> Cardinality(playlists) + 1, user_id |-> user, source_id |-> sourceId,
     name |-> name, folder_path |-> path]

\* the folder paths of the playlists of the source, of any user
selectExistingPathsOfSource(sourceId, user) ==
    {p.folder_path : p \in {q \in playlists : q.source_id = sourceId}}

\* .from('playlists').select('name, folder_path').eq('source_id', id).eq('user_id', user)
selectExistingPaths(sourceId, user) ==
    {p.folder_path : p \in {q \in playlists : q.source_id = sourceId /\ q.user_id = user}}

playlistOwner(plId) ==
    IF \E p \in playlists : p.id = plId
    THEN (CHOOSE p \in playlists : p.id = plId).user_id
    ELSE Null

\* .from('songs').select('id, playlist_id').eq('unique_link', link).single()
selectSongByLink(link) ==
    IF \E s \in songs : s.unique_link = link
    THEN LET s == CHOOSE s \in songs : s.unique_link = link
         IN  [id |-> s.id, playlist_id |-> s.playlist_id]
    ELSE NoSong

\* songs.unique_link is UNIQUE
uniqueLinkTaken(link) == \E s \in songs : s.unique_link = link

\* .from('songs').insert([{playlist_id, title, duration, file_path, unique_link}])
newSongRow(plId, song, link) ==
    [id |-> Cardinality(songs) + 1, playlist_id |-> plId, title |-> song.name,
     duration |-> DefaultDuration, file_path |-> song.downloadUrl,
     unique_link |-> link]

updateSongPlaylistUnrestricted(id, plId, user) ==
    {IF s.id = id THEN [s EXCEPT !.playlist_id = plId] ELSE s : s \in songs}

\* .from('songs').update({playlist_id}).eq('id', id) under the policy "Users
\* can manage songs in own playlists": USING hides the songs of playlists of
\* other users from the update
updateSongPlaylist(id, plId, user) ==
    {IF s.id = id /\ playlistOwner(s.playlist_id) = user
        THEN [s EXCEPT !.playlist_id = plId] ELSE s
        : s \in songs}

(***************************************************************************)
(* Sessions.                                                               *)
(***************************************************************************)
Tables == [sources |-> sources, playlists |-> playlists, songs |-> songs]

\* What is kept of the handler that ran before the one in flight.
NoPrev ==
    [op |-> "none", user |-> Null, src |-> NoSource, result |-> "", log |-> {},
     failed |-> {}, nPl |-> 0]
Summary(s) ==
    [op |-> s.op, user |-> s.user, src |-> s.src, result |-> s.result,
     log |-> s.log, failed |-> s.failed, nPl |-> s.nPl]

\* The locals of a handler (user ... plSongs), what it reports (result,
\* results, nPl, nSongs), what it logs with console.error (log), and, for the
\* statement of properties: the tables when it started (before), the
\* directories whose listing failed in its scan (failed), the handler that ran
\* before it in the session (prev).  For a scan followed request by request:
\* the directories still to list (dirs) and the listings requested (fetched).
\* For the bulk import: the inter-item delays it has waited for (delays).  For
\* a refresh: the page whose Sync button started it (page).  For a call of
\* generateUniqueLink alone: its environment, argument and result (derived).
IdleSess ==
    [op |-> "none", pc |-> "idle", user |-> Null, urls |-> <<>>, i |-> 0,
     src |-> NoSource, existed |-> FALSE, repo |-> NullRepo, cat |-> <<>>,
     pl |-> NoPlaylist, todo |-> <<>>, found |-> NoSong,
     nPl |-> 0, nSongs |-> 0, plSongs |-> 0, result |-> "", results |-> <<>>, log |-> {},
     failed |-> {}, prev |-> NoPrev, dirs |-> <<>>, fetched |-> <<>>,
     delays |-> 0, page |-> Null,
     derived |-> [origin |-> Null, filePath |-> <<>>, link |-> <<>>],
     before |-> [sources |-> {}, playlists |-> {}, songs |-> {}]]

\* a session can start a handler when none is in flight in it; again: also
\* after an earlier handler of the session has ended
Free(p, again) == sess[p].pc = "idle" \/ (again /\ sess[p].pc = "done")

(***************************************************************************)
(* The library the handlers start from: an empty database, or the database *)
(* left by user u1's add-source import of UrlMusic at time 1 (every        *)
(* request of it succeeding), which SeedIsReachable shows to be a state    *)
(* the handlers produce.                                                   *)
(***************************************************************************)
SeedUser == "u1"
SeedCatalog == scanRepositoryStructure("music", {})

RECURSIVE songsBefore(_)
songsBefore(k) == IF k <= 1 THEN 0 ELSE songsBefore(k - 1) + Len(SeedCatalog[k - 1].songs)

SeedSources ==
    {[id |-> 1, name |-> typedName(SeedUser), drive_link |-> UrlMusic,
      created_by |-> SeedUser, last_synced |-> 1]}
SeedPlaylists ==
    {[id |-> k, user_id |-> SeedUser, source_id |-> 1, name |-> SeedCatalog[k].name,
      folder_path |-> SeedCatalog[k].path] : k \in DOMAIN SeedCatalog}
SeedSongs ==
    UNION {{[id |-> songsBefore(k) + j, playlist_id |-> k,
             title |-> SeedCatalog[k].songs[j].name,
             duration |-> DefaultDuration,
             file_path |-> SeedCatalog[k].songs[j].downloadUrl,
             unique_link |-> perUserLink(
                 generateUniqueLink(parseGitHubUrl(UrlMusic).owner,
                                    parseGitHubUrl(UrlMusic).repo,
                                    SeedCatalog[k].songs[j].path), SeedUser, 1)]
            : j \in DOMAIN SeedCatalog[k].songs} : k \in DOMAIN SeedCatalog}

InitLibrary ==
    /\ \/ sources = {} /\ playlists = {} /\ songs = {} /\ clock = 0
       \/ /\ sources = SeedSources
          /\ playlists = SeedPlaylists
          /\ songs = SeedSongs
          /\ clock = 1
    /\ ops = 0
    /\ sess = [p \in Sessions |-> IdleSess]
    /\ refreshing = [p \in Sessions |-> NoSource]

Init == InitLibrary /\ faults = 0

Done(s, result) == [s EXCEPT !.pc = "done", !.result = result]

DbUnchanged == UNCHANGED <<sources, playlists, songs>>
EnvUnchanged == UNCHANGED <<clock, ops, faults, refreshing>>
Fault == faults < MaxFaults /\ faults' = faults + 1 /\ UNCHANGED <<clock, ops, refreshing>>

(***************************************************************************)
(* AddStreamingLinkModal.handleSubmit                                      *)
(***************************************************************************)
AddUrls == {UrlMusic, UrlEmpty, UrlBad}
ConcAddUrls == {UrlMusic}

\* lines 27-46: the submit, URL validation and parsing
AddSubmit(p, user, url, again) ==
    /\ Free(p, again)
    /\ ops < MaxOps
    /\ ops' = ops + 1
    /\ clock' = clock + 1
    /\ LET s == [IdleSess EXCEPT !.op = "add", !.user = user, !.urls = <<url>>,
                                 !.i = 1, !.before = Tables,
                                 !.prev = Summary(sess[p])]
       IN  sess' = [sess EXCEPT ![p] =
                IF ~githubUrlPattern(url) \/ parseGitHubUrl(url) = NullRepo
                THEN Done(s, "InvalidLocationFormat")
                ELSE [s EXCEPT !.pc = "a_guard", !.repo = parseGitHubUrl(url)]]
    /\ DbUnchanged
    /\ UNCHANGED <<faults, refreshing>>

\* lines 48-65: has the user already playlists of a source with this link?
AddGuard(p) ==
    LET s == sess[p] IN
    /\ s.op = "add" /\ s.pc = "a_guard"
    /\ sess' = [sess EXCEPT ![p] =
            IF selectSourcesWithUserPlaylists(s.urls[1], s.user) # {}
            THEN Done(s, "AlreadyImported")
            ELSE [s EXCEPT !.pc = "a_lookup"]]
    /\ DbUnchanged /\ EnvUnchanged

\* the lookup, with last_synced of the source found set to the current time
AddLookupSourceTouching(p) ==
    LET s == sess[p] IN
    /\ s.op = "add" /\ s.pc = "a_lookup"
    /\ IF selectSourcesByLink(s.urls[1], s.user) # {}
       THEN \E row \in selectSourcesByLink(s.urls[1], s.user) :
                /\ sess' = [sess EXCEPT ![p] = [s EXCEPT !.pc = "scan", !.src = row.id,
                                                         !.existed = TRUE]]
                /\ sources' = updateLastSynced(row.id, s.user, clock)
       ELSE sess' = [sess EXCEPT ![p] = [s EXCEPT !.pc = "a_insert"]] /\ UNCHANGED sources
    /\ UNCHANGED <<playlists, songs>> /\ EnvUnchanged

\* lines 67-78: find the streaming source; allExistingSources[0] is any of
\* the matching rows (the query states no order)
AddLookupSource(p) ==
    LET s == sess[p] IN
    /\ s.op = "add" /\ s.pc = "a_lookup"
    /\ IF selectSourcesByLink(s.urls[1], s.user) # {}
       THEN \E row \in selectSourcesByLink(s.urls[1], s.user) :
                sess' = [sess EXCEPT ![p] = [s EXCEPT !.pc = "scan", !.src = row.id,
                                                      !.existed = TRUE]]
       ELSE sess' = [sess EXCEPT ![p] = [s EXCEPT !.pc = "a_insert"]]
    /\ DbUnchanged /\ EnvUnchanged

\* lines 79-97: create the streaming source
AddInsertSource(p) ==
    LET s == sess[p] IN
    /\ s.op = "add" /\ s.pc = "a_insert"
    /\ \/ LET row == newSourceRow(typedName(s.user), s.urls[1], s.user, clock) IN
          /\ sources' = sources \cup {row}
          /\ sess' = [sess EXCEPT ![p] = [s EXCEPT !.pc = "scan", !.src = row.id]]
          /\ UNCHANGED <<playlists, songs>> /\ EnvUnchanged
       \/ /\ Fault     \* sourceError: thrown
          /\ sess' = [sess EXCEPT ![p] = Done(s, "StorageError")]
          /\ DbUnchanged

\* after the last song of a playlist comes the next playlist, after the last
\* playlist the end of the handler (lines 117, 145, 180-192)
AddAdvance(s) ==
    IF s.todo # <<>> THEN [s EXCEPT !.pc = "song"]
    ELSE IF s.cat # <<>> THEN [s EXCEPT !.pc = "pl"]
    ELSE Done(s, "ok")

\* lines 99-114: scan the repository
AddScan(p) ==
    LET s == sess[p] IN
    /\ s.op = "add" /\ s.pc = "scan"
    /\ \/ \E failed \in SUBSET RootDirs(s.repo.repo) :
            /\ IF failed = {} THEN EnvUnchanged ELSE Fault
            /\ Cardinality(failed) <= 1
            /\ LET found == scanRepositoryStructure(s.repo.repo, failed) IN
               sess' = [sess EXCEPT ![p] =
                    IF Len(found) = 0
                    THEN Done([s EXCEPT !.failed = failed], "NoPlayableContent")
                    ELSE [s EXCEPT !.pc = "pl", !.cat = found, !.failed = failed]]
       \/ /\ Fault    \* the root listing cannot be fetched: the scan throws
          /\ sess' = [sess EXCEPT ![p] = Done(s, "ScanFailed")]
    /\ DbUnchanged

\* the playlist insert, with its error thrown instead of logged
AddInsertPlaylistAborting(p) ==
    LET s == sess[p]
        cand == Head(s.cat)
    IN
    /\ s.op = "add" /\ s.pc = "pl"
    /\ \/ LET row == newPlaylistRow(s.user, s.src, cand.name, cand.path) IN
          /\ playlists' = playlists \cup {row}
          /\ sess' = [sess EXCEPT ![p] =
                AddAdvance([s EXCEPT !.pl = row.id, !.nPl = @ + 1,
                                     !.todo = cand.songs, !.cat = Tail(@)])]
          /\ UNCHANGED <<sources, songs>> /\ EnvUnchanged
       \/ /\ Fault
          /\ sess' = [sess EXCEPT ![p] =
                Done([s EXCEPT !.log = @ \cup {"playlist"}], "StorageError")]
          /\ DbUnchanged

\* lines 116-143: create the playlist of the next candidate
AddInsertPlaylist(p) ==
    LET s == sess[p]
        cand == Head(s.cat)
    IN
    /\ s.op = "add" /\ s.pc = "pl"
    /\ \/ LET row == newPlaylistRow(s.user, s.src, cand.name, cand.path) IN
          /\ playlists' = playlists \cup {row}
          /\ sess' = [sess EXCEPT ![p] =
                AddAdvance([s EXCEPT !.pl = row.id, !.nPl = @ + 1,
                                     !.todo = cand.songs, !.cat = Tail(@)])]
          /\ UNCHANGED <<sources, songs>> /\ EnvUnchanged
       \/ /\ Fault    \* playlistError: logged, continue
          /\ sess' = [sess EXCEPT ![p] =
                AddAdvance([s EXCEPT !.cat = Tail(@), !.log = @ \cup {"playlist"}])]
          /\ DbUnchanged

\* lines 145-176: create the next song of the playlist
AddInsertSong(p) ==
    LET s == sess[p]
        song == Head(s.todo)
        uniqueLink == generateUniqueLink(s.repo.owner, s.repo.repo, song.path)
        stored == perUserLink(uniqueLink, s.user, clock)
    IN
    /\ s.op = "add" /\ s.pc = "song"
    /\ \/ /\ ~uniqueLinkTaken(stored)
          /\ songs' = songs \cup {newSongRow(s.pl, song, stored)}
          /\ sess' = [sess EXCEPT ![p] =
                AddAdvance([s EXCEPT !.nSongs = @ + 1, !.todo = Tail(@)])]
          /\ UNCHANGED <<sources, playlists>> /\ EnvUnchanged
       \/ /\ uniqueLinkTaken(stored)    \* songError (23505): logged
          /\ sess' = [sess EXCEPT ![p] =
                AddAdvance([s EXCEPT !.todo = Tail(@), !.log = @ \cup {"conflict"}])]
          /\ DbUnchanged /\ EnvUnchanged
       \/ /\ Fault    \* songError: logged
          /\ sess' = [sess EXCEPT ![p] =
                AddAdvance([s EXCEPT !.todo = Tail(@), !.log = @ \cup {"song"}])]
          /\ DbUnchanged

AddSourceHandler(p, urls, again) ==
    \/ \E user \in Users, url \in urls : AddSubmit(p, user, url, again)
    \/ AddGuard(p)
    \/ AddLookupSource(p)
    \/ AddInsertSource(p)
    \/ AddScan(p)
    \/ AddInsertPlaylist(p)
    \/ AddInsertSong(p)

(***************************************************************************)
(* AdminBulkImportModal                                                    *)
(***************************************************************************)
UrlMusicTree == <<Seg("alice", FALSE), Seg("music", FALSE), Seg("tree", FALSE)>>

\* the bulk source list: a text holding URLs
BulkTexts == {<<UrlMusic, UrlMusicTree>>, <<UrlEmpty, UrlMusicGit>>, <<UrlBad>>}
ConcBulkTexts == {<<UrlMusic, UrlMusicTree>>}

RECURSIVE dedup(_)
\* [...new Set(urls)]: first occurrences, in order
dedup(urls) ==
    IF urls = <<>> THEN <<>>
    ELSE LET front == dedup(SubSeq(urls, 1, Len(urls) - 1))
             last == urls[Len(urls)]
         IN  IF \E k \in DOMAIN front : front[k] = last THEN front
             ELSE Append(front, last)

\* extractGitHubUrls: every match of /https:\/\/github\.com\/[\w\-\.]+\/[\w\-\.]+/g,
\* which ends with the second path segment, without duplicates
extractGitHubUrls(text) ==
    LET matching == SelectSeq(text, LAMBDA u : Len(u) >= 2)
    IN  dedup([k \in DOMAIN matching |-> SubSeq(matching[k], 1, 2)])

\* setImportResults(prev => prev.map(result => result.url === url ? ... ))
setStatus(s, status, error) ==
    [s EXCEPT !.results[s.i] =
        [@ EXCEPT !.status = status, !.error = error,
                  !.playlistCount = IF status = "success" THEN s.nPl ELSE @]]

\* the for loop of line 130 reaches its next iteration, or its end (272-284)
BulkNextItem(s) ==
    IF s.i < Len(s.urls)
    THEN [s EXCEPT !.i = @ + 1, !.pc = "b_lookup", !.src = NoSource,
                   !.existed = FALSE, !.repo = NullRepo, !.cat = <<>>,
                   !.todo = <<>>, !.pl = NoPlaylist, !.nPl = 0, !.plSongs = 0,
                   !.failed = {},
                   !.results[s.i + 1].status = "processing"]
    ELSE Done(s, "ok")

\* `continue` in the loop body (162, 193, 210): the next iteration starts at once
BulkContinue(s, error) == BulkNextItem(setStatus(s, "error", error))

\* the end of the try block (249-255) or its catch (257-266): the delay follows
BulkItemEnd(s, status, error) == [setStatus(s, status, error) EXCEPT !.pc = "b_delay"]

\* lines 95-139: the submit, the fetch of the list, the first item
BulkSubmit(p, user, text, again) ==
    /\ Free(p, again)
    /\ ops < MaxOps
    /\ ops' = ops + 1
    /\ clock' = clock + 1
    /\ LET githubUrls == extractGitHubUrls(text)
           s == [IdleSess EXCEPT !.op = "bulk", !.user = user, !.urls = githubUrls,
                    !.before = Tables, !.prev = Summary(sess[p]),
                    !.results = [k \in DOMAIN githubUrls |->
                                    [url |-> githubUrls[k], status |-> "pending",
                                     error |-> "", playlistCount |-> 0]]]
       IN  sess' = [sess EXCEPT ![p] =
                IF Len(githubUrls) = 0 THEN Done(s, "NoUrls") ELSE BulkNextItem(s)]
    /\ DbUnchanged
    /\ UNCHANGED <<faults, refreshing>>

\* lines 141-163, 183-194: look the source up by its link
BulkLookupSource(p) ==
    LET s == sess[p]
        url == s.urls[s.i]
        repoInfo == parseGitHubUrl(url)
    IN
    /\ s.op = "bulk" /\ s.pc = "b_lookup"
    /\ IF selectSourcesByLink(url, s.user) # {}
       THEN \E row \in selectSourcesByLink(url, s.user) :
                sess' = [sess EXCEPT ![p] =
                    IF repoInfo = NullRepo THEN BulkContinue(s, "Invalid GitHub URL format")
                    ELSE [s EXCEPT !.pc = "scan", !.src = row.id, !.existed = TRUE,
                                   !.repo = repoInfo]]
       ELSE sess' = [sess EXCEPT ![p] =
                    IF repoInfo = NullRepo THEN BulkContinue(s, "Invalid GitHub URL format")
                    ELSE [s EXCEPT !.pc = "b_insert", !.repo = repoInfo]]
    /\ DbUnchanged /\ EnvUnchanged

\* lines 165-181: create the streaming source
BulkInsertSource(p) ==
    LET s == sess[p]
        url == s.urls[s.i]
    IN
    /\ s.op = "bulk" /\ s.pc = "b_insert"
    /\ \/ LET row == newSourceRow(generateSourceName(url), url, s.user, clock) IN
          /\ sources' = sources \cup {row}
          /\ sess' = [sess EXCEPT ![p] = [s EXCEPT !.pc = "scan", !.src = row.id]]
          /\ UNCHANGED <<playlists, songs>> /\ EnvUnchanged
       \/ /\ Fault     \* sourceError: thrown, caught at 257
          /\ sess' = [sess EXCEPT ![p] = BulkItemEnd(s, "error", "storage error")]
          /\ DbUnchanged

\* lines 237-247: after a song, the next song; after the last song of a
\* playlist, the playlist is counted if it got a song, and the next playlist
\* follows; after the last playlist the item has succeeded
BulkAdvance(s) ==
    IF s.todo # <<>> THEN [s EXCEPT !.pc = "song_find"]
    ELSE LET c == [s EXCEPT !.nPl = IF s.plSongs > 0 THEN @ + 1 ELSE @,
                            !.plSongs = 0]
         IN  IF c.cat # <<>> THEN [c EXCEPT !.pc = "pl"]
             ELSE BulkItemEnd(c, "success", "")

BulkScanAborting(p) ==
    LET s == sess[p] IN
    /\ s.op = "bulk" /\ s.pc = "scan"
    /\ \/ \E failed \in SUBSET RootDirs(s.repo.repo) :
            /\ IF failed = {} THEN EnvUnchanged ELSE Fault
            /\ Cardinality(failed) <= 1
            /\ LET found == scanRepositoryStructure(s.repo.repo, failed) IN
               sess' = [sess EXCEPT ![p] =
                    IF Len(found) = 0
                    THEN BulkContinue([s EXCEPT !.failed = failed],
                                      "No audio files found in repository")
                    ELSE [s EXCEPT !.pc = "pl", !.cat = found, !.failed = failed]]
       \/ /\ Fault
          /\ sess' = [sess EXCEPT ![p] =
                Done(setStatus(s, "error", "GitHub API error"), "ok")]
    /\ DbUnchanged

\* lines 196-214: scan the repository
BulkScan(p) ==
    LET s == sess[p] IN
    /\ s.op = "bulk" /\ s.pc = "scan"
    /\ \/ \E failed \in SUBSET RootDirs(s.repo.repo) :
            /\ IF failed = {} THEN EnvUnchanged ELSE Fault
            /\ Cardinality(failed) <= 1
            /\ LET found == scanRepositoryStructure(s.repo.repo, failed) IN
               sess' = [sess EXCEPT ![p] =
                    IF Len(found) = 0
                    THEN BulkContinue([s EXCEPT !.failed = failed],
                                      "No audio files found in repository")
                    ELSE [s EXCEPT !.pc = "pl", !.cat = found, !.failed = failed]]
       \/ /\ Fault    \* the root listing cannot be fetched: caught at 257
          /\ sess' = [sess EXCEPT ![p] = BulkItemEnd(s, "error", "GitHub API error")]
    /\ DbUnchanged

\* lines 215-236: create the playlist of the next candidate
BulkInsertPlaylist(p) ==
    LET s == sess[p]
        cand == Head(s.cat)
    IN
    /\ s.op = "bulk" /\ s.pc = "pl"
    /\ \/ LET row == newPlaylistRow(s.user, s.src, cand.name, cand.path) IN
          /\ playlists' = playlists \cup {row}
          /\ sess' = [sess EXCEPT ![p] =
                BulkAdvance([s EXCEPT !.pl = row.id, !.plSongs = 0,
                                      !.todo = cand.songs, !.cat = Tail(@)])]
          /\ UNCHANGED <<sources, songs>> /\ EnvUnchanged
       \/ /\ Fault    \* playlistError: logged, continue
          /\ sess' = [sess EXCEPT ![p] =
                BulkAdvance([s EXCEPT !.cat = Tail(@), !.log = @ \cup {"playlist"}])]
          /\ DbUnchanged

\* findOrCreateSong, lines 48-60: is there a song with this unique_link?
BulkFindSong(p) ==
    LET s == sess[p]
        song == Head(s.todo)
        uniqueLink == generateUniqueLink(s.repo.owner, s.repo.repo, song.path)
    IN
    /\ s.op = "bulk" /\ s.pc = "song_find"
    /\ sess' = [sess EXCEPT ![p] =
            [s EXCEPT !.pc = "song_write", !.found = selectSongByLink(uniqueLink)]]
    /\ DbUnchanged /\ EnvUnchanged

\* findOrCreateSong, lines 62-92: re-point the song found, else insert it
BulkWriteSong(p) ==
    LET s == sess[p]
        song == Head(s.todo)
        uniqueLink == generateUniqueLink(s.repo.owner, s.repo.repo, song.path)
        counted == [s EXCEPT !.plSongs = @ + 1, !.todo = Tail(@), !.found = NoSong]
        dropped == [s EXCEPT !.todo = Tail(@), !.found = NoSong]
    IN
    /\ s.op = "bulk" /\ s.pc = "song_write"
    /\ IF s.found # NoSong
       THEN \/ /\ songs' = updateSongPlaylist(s.found.id, s.pl, s.user)
               /\ sess' = [sess EXCEPT ![p] = BulkAdvance(counted)]
               /\ UNCHANGED <<sources, playlists>> /\ EnvUnchanged
            \/ /\ Fault    \* updateError: logged, the id is returned all the same
               /\ sess' = [sess EXCEPT ![p] =
                    BulkAdvance([counted EXCEPT !.log = @ \cup {"update"}])]
               /\ DbUnchanged
       ELSE \/ /\ ~uniqueLinkTaken(uniqueLink)
               /\ songs' = songs \cup {newSongRow(s.pl, song, uniqueLink)}
               /\ sess' = [sess EXCEPT ![p] = BulkAdvance(counted)]
               /\ UNCHANGED <<sources, playlists>> /\ EnvUnchanged
            \/ /\ uniqueLinkTaken(uniqueLink)   \* insertError (23505): null
               /\ sess' = [sess EXCEPT ![p] =
                    BulkAdvance([dropped EXCEPT !.log = @ \cup {"conflict"}])]
               /\ DbUnchanged /\ EnvUnchanged
            \/ /\ Fault    \* insertError: logged, null
               /\ sess' = [sess EXCEPT ![p] =
                    BulkAdvance([dropped EXCEPT !.log = @ \cup {"song"}])]
               /\ DbUnchanged

\* lines 268-270: the delay between two items
BulkDelay(p) ==
    LET s == sess[p] IN
    /\ s.op = "bulk" /\ s.pc = "b_delay"
    /\ sess' = [sess EXCEPT ![p] = BulkNextItem([s EXCEPT !.delays = @ + 1])]
    /\ DbUnchanged /\ EnvUnchanged

BulkImportHandler(p, texts, again) ==
    \/ \E user \in Users, text \in texts : BulkSubmit(p, user, text, again)
    \/ BulkLookupSource(p)
    \/ BulkInsertSource(p)
    \/ BulkScan(p)
    \/ BulkInsertPlaylist(p)
    \/ BulkFindSong(p)
    \/ BulkWriteSong(p)
    \/ BulkDelay(p)

(***************************************************************************)
(* LibraryPage.handleRefreshSource and LibraryPage.findOrCreateSong        *)
(***************************************************************************)
RefreshAdvance(s) ==
    IF s.todo # <<>> THEN [s EXCEPT !.pc = "song_find"]
    ELSE IF s.cat # <<>> THEN [s EXCEPT !.pc = "pl"]
    ELSE [s EXCEPT !.pc = "r_touch"]

\* setRefreshing(value) of line 1287, in the page named
setRefreshing(page, value) == refreshing' = [refreshing EXCEPT ![page] = value]

\* lines 1484-1489: a thrown error is caught and `finally` resets the flag
RefreshFault(page) ==
    /\ faults < MaxFaults /\ faults' = faults + 1 /\ UNCHANGED <<clock, ops>>
    /\ setRefreshing(page, NoSource)

\* lines 1614-1617 and 1387-1396: a click on the Sync button of a source of
\* the list loaded in a page, which is disabled while `refreshing` is this
\* source; the handler sets the flag and parses the link.  budget: the
\* number of handlers the run may start in all.
RefreshStartIn(p, page, budget, user, source, again) ==
    /\ Free(p, again)
    /\ refreshing[page] # source.id
    /\ ops < budget
    /\ ops' = ops + 1
    /\ clock' = clock + 1
    /\ LET s == [IdleSess EXCEPT !.op = "refresh", !.user = user,
                    !.urls = <<source.drive_link>>, !.i = 1, !.src = source.id,
                    !.existed = TRUE, !.before = Tables, !.page = page,
                    !.prev = Summary(sess[p])]
           repoInfo == parseGitHubUrl(source.drive_link)
       IN  /\ sess' = [sess EXCEPT ![p] =
                IF repoInfo = NullRepo THEN Done(s, "InvalidLocationFormat")
                ELSE [s EXCEPT !.pc = "scan", !.repo = repoInfo]]
           /\ setRefreshing(page, IF repoInfo = NullRepo THEN NoSource ELSE source.id)
    /\ DbUnchanged
    /\ UNCHANGED faults

\* the Sync button in a session that is a page of its own
RefreshStart(p, user, source, again) ==
    RefreshStartIn(p, p, MaxOps, user, source, again)

\* the scan, with last_synced written also when the scan throws
RefreshScanTouching(p) ==
    LET s == sess[p] IN
    /\ s.op = "refresh" /\ s.pc = "scan"
    /\ \/ \E failed \in SUBSET RootDirs(s.repo.repo) :
            /\ IF failed = {} THEN EnvUnchanged ELSE Fault
            /\ Cardinality(failed) <= 1
            /\ sess' = [sess EXCEPT ![p] =
                    [s EXCEPT !.pc = "r_existing", !.failed = failed,
                              !.cat = scanRepositoryStructure(s.repo.repo, failed)]]
            /\ DbUnchanged
       \/ /\ RefreshFault(s.page)
          /\ sess' = [sess EXCEPT ![p] = Done(s, "ScanFailed")]
          /\ sources' = updateLastSynced(s.src, s.user, clock)
          /\ UNCHANGED <<playlists, songs>>

\* lines 1398-1402: scan the repository
RefreshScan(p) ==
    LET s == sess[p] IN
    /\ s.op = "refresh" /\ s.pc = "scan"
    /\ \/ \E failed \in SUBSET RootDirs(s.repo.repo) :
            /\ IF failed = {} THEN EnvUnchanged ELSE Fault
            /\ Cardinality(failed) <= 1
            /\ sess' = [sess EXCEPT ![p] =
                    [s EXCEPT !.pc = "r_existing", !.failed = failed,
                              !.cat = scanRepositoryStructure(s.repo.repo, failed)]]
       \/ /\ RefreshFault(s.page)    \* the root listing cannot be fetched
          /\ sess' = [sess EXCEPT ![p] = Done(s, "ScanFailed")]
    /\ DbUnchanged

\* the delta, with the playlists the scan did not find deleted
RefreshExistingPruning(p) ==
    LET s == sess[p]
        existingPaths == selectExistingPaths(s.src, s.user)
        newPlaylistsToAdd == SelectSeq(s.cat, LAMBDA c : c.path \notin existingPaths)
        scanned == {s.cat[i].path : i \in DOMAIN s.cat}
    IN
    /\ s.op = "refresh" /\ s.pc = "r_existing"
    /\ sess' = [sess EXCEPT ![p] =
            IF Len(newPlaylistsToAdd) = 0 THEN Done(s, "NoNewPlaylists")
            ELSE [s EXCEPT !.pc = "pl", !.cat = newPlaylistsToAdd,
                           !.nPl = Len(newPlaylistsToAdd)]]
    /\ playlists' = {q \in playlists :
                        (q.source_id = s.src /\ q.user_id = s.user)
                            => q.folder_path \in scanned}
    /\ UNCHANGED <<sources, songs, clock, ops, faults>>
    /\ IF Len(newPlaylistsToAdd) = 0 THEN setRefreshing(s.page, NoSource)
       ELSE UNCHANGED refreshing

\* the delta taken to be the whole catalog
RefreshExistingUnfiltered(p) ==
    LET s == sess[p] IN
    /\ s.op = "refresh" /\ s.pc = "r_existing"
    /\ sess' = [sess EXCEPT ![p] =
            IF Len(s.cat) = 0 THEN Done(s, "NoNewPlaylists")
            ELSE [s EXCEPT !.pc = "pl", !.nPl = Len(s.cat)]]
    /\ DbUnchanged /\ UNCHANGED <<clock, ops, faults>>
    /\ IF Len(s.cat) = 0 THEN setRefreshing(s.page, NoSource)
       ELSE UNCHANGED refreshing

\* lines 1404-1423: the playlists the user has of this source, and the delta
RefreshExisting(p) ==
    LET s == sess[p]
        existingPaths == selectExistingPaths(s.src, s.user)
        newPlaylistsToAdd == SelectSeq(s.cat, LAMBDA c : c.path \notin existingPaths)
    IN
    /\ s.op = "refresh" /\ s.pc = "r_existing"
    /\ sess' = [sess EXCEPT ![p] =
            IF Len(newPlaylistsToAdd) = 0 THEN Done(s, "NoNewPlaylists")
            ELSE [s EXCEPT !.pc = "pl", !.cat = newPlaylistsToAdd,
                           !.nPl = Len(newPlaylistsToAdd)]]
    /\ DbUnchanged /\ UNCHANGED <<clock, ops, faults>>
    \* the early return of 1418-1421 passes through `finally`
    /\ IF Len(newPlaylistsToAdd) = 0 THEN setRefreshing(s.page, NoSource)
       ELSE UNCHANGED refreshing

\* lines 1426-1445: create the playlist of the next candidate
RefreshInsertPlaylist(p) ==
    LET s == sess[p]
        cand == Head(s.cat)
    IN
    /\ s.op = "refresh" /\ s.pc = "pl"
    /\ \/ LET row == newPlaylistRow(s.user, s.src, cand.name, cand.path) IN
          /\ playlists' = playlists \cup {row}
          /\ sess' = [sess EXCEPT ![p] =
                RefreshAdvance([s EXCEPT !.pl = row.id, !.todo = cand.songs,
                                         !.cat = Tail(@)])]
          /\ UNCHANGED <<sources, songs>> /\ EnvUnchanged
       \/ /\ Fault    \* playlistError: logged, continue
          /\ sess' = [sess EXCEPT ![p] =
                RefreshAdvance([s EXCEPT !.cat = Tail(@), !.log = @ \cup {"playlist"}])]
          /\ DbUnchanged

\* lines 1447-1459 and findOrCreateSong, lines 1340-1350
RefreshFindSong(p) ==
    LET s == sess[p]
        song == Head(s.todo)
        uniqueLink == generateUniqueLink(s.repo.owner, s.repo.repo, song.path)
    IN
    /\ s.op = "refresh" /\ s.pc = "song_find"
    /\ \/ /\ sess' = [sess EXCEPT ![p] =
                [s EXCEPT !.pc = "song_write", !.found = selectSongByLink(uniqueLink)]]
          /\ EnvUnchanged
       \/ /\ Fault    \* findError: thrown, caught at 1466
          /\ sess' = [sess EXCEPT ![p] =
                RefreshAdvance([s EXCEPT !.todo = Tail(@), !.log = @ \cup {"find"}])]
    /\ DbUnchanged

\* findOrCreateSong, lines 1352-1380, and lines 1462-1469
RefreshWriteSong(p) ==
    LET s == sess[p]
        song == Head(s.todo)
        uniqueLink == generateUniqueLink(s.repo.owner, s.repo.repo, song.path)
        counted == [s EXCEPT !.nSongs = @ + 1, !.todo = Tail(@), !.found = NoSong]
        dropped == [s EXCEPT !.todo = Tail(@), !.found = NoSong]
    IN
    /\ s.op = "refresh" /\ s.pc = "song_write"
    /\ IF s.found # NoSong
       THEN /\ sess' = [sess EXCEPT ![p] =
                    IF s.found.playlist_id = s.pl
                    THEN RefreshAdvance(counted)     \* already in this playlist
                    ELSE RefreshAdvance(dropped)]    \* in another playlist: skipped
            /\ DbUnchanged /\ EnvUnchanged
       ELSE \/ /\ ~uniqueLinkTaken(uniqueLink)
               /\ songs' = songs \cup {newSongRow(s.pl, song, uniqueLink)}
               /\ sess' = [sess EXCEPT ![p] = RefreshAdvance(counted)]
               /\ UNCHANGED <<sources, playlists>> /\ EnvUnchanged
            \/ /\ uniqueLinkTaken(uniqueLink)   \* insertError (23505): thrown
               /\ sess' = [sess EXCEPT ![p] =
                    RefreshAdvance([dropped EXCEPT !.log = @ \cup {"conflict"}])]
               /\ DbUnchanged /\ EnvUnchanged
            \/ /\ Fault    \* insertError: thrown, caught at 1466
               /\ sess' = [sess EXCEPT ![p] =
                    RefreshAdvance([dropped EXCEPT !.log = @ \cup {"song"}])]
               /\ DbUnchanged

\* lines 1473-1489: touch last_synced, reload, report
RefreshTouch(p) ==
    LET s == sess[p] IN
    /\ s.op = "refresh" /\ s.pc = "r_touch"
    /\ sources' = updateLastSynced(s.src, s.user, clock)
    /\ sess' = [sess EXCEPT ![p] = Done(s, "ok")]
    /\ setRefreshing(s.page, NoSource)
    /\ UNCHANGED <<playlists, songs, clock, ops, faults>>

RefreshHandler(p, again) ==
    \/ \E user \in Users, source \in sources : RefreshStart(p, user, source, again)
    \/ RefreshScan(p)
    \/ RefreshExisting(p)
    \/ RefreshInsertPlaylist(p)
    \/ RefreshFindSong(p)
    \/ RefreshWriteSong(p)
    \/ RefreshTouch(p)

(***************************************************************************)
(* What each handler does with one scanned song of a playlist it has       *)
(* created, every request succeeding: the songs table it leaves.           *)
(***************************************************************************)
\* part_002, lines 145-171: no lookup, a row with the link made per user
addSongOutcome(plId, song, repo, user, now) ==
    LET stored == perUserLink(generateUniqueLink(repo.owner, repo.repo, song.path),
                              user, now)
    IN  IF uniqueLinkTaken(stored) THEN songs
        ELSE songs \cup {newSongRow(plId, song, stored)}

\* AdminBulkImportModal.findOrCreateSong: the song found is re-pointed
bulkSongOutcome(plId, song, repo, user) ==
    LET uniqueLink == generateUniqueLink(repo.owner, repo.repo, song.path)
        existingSong == selectSongByLink(uniqueLink)
    IN  IF existingSong # NoSong
        THEN updateSongPlaylist(existingSong.id, plId, user)
        ELSE songs \cup {newSongRow(plId, song, uniqueLink)}

\* LibraryPage.findOrCreateSong: the song found is left where it is
refreshSongOutcome(plId, song, repo, user) ==
    LET uniqueLink == generateUniqueLink(repo.owner, repo.repo, song.path)
        existingSong == selectSongByLink(uniqueLink)
    IN  IF existingSong # NoSong THEN songs
        ELSE songs \cup {newSongRow(plId, song, uniqueLink)}

(***************************************************************************)
(* GitHubService.scanRepositoryStructure followed request by request: the  *)
(* root listing, then one listing for each directory of the root.  Every   *)
(* listing request may fail.                                               *)
(***************************************************************************)
rootPath == <<>>

\* lines 49-71: the scan of the repository a link names
ScanStart(p, url, again) ==
    /\ Free(p, again)
    /\ ops < MaxOps
    /\ parseGitHubUrl(url) # NullRepo
    /\ ops' = ops + 1
    /\ sess' = [sess EXCEPT ![p] =
            [IdleSess EXCEPT !.op = "scan", !.pc = "s_root", !.urls = <<url>>, !.i = 1,
                             !.repo = parseGitHubUrl(url), !.before = Tables,
                             !.prev = Summary(sess[p])]]
    /\ DbUnchanged
    /\ UNCHANGED <<clock, faults, refreshing>>

\* the root listing, with the audio files of the root taken as a candidate
ScanRootWithFiles(p) ==
    LET s == sess[p]
        rootContents == RemoteRoot(s.repo.repo)
        directories == SelectSeq(rootContents, LAMBDA item : item.type = "dir")
        rootSongs == dirSongs(rootContents)
    IN
    /\ s.op = "scan" /\ s.pc = "s_root"
    /\ \/ sess' = [sess EXCEPT ![p] =
                [s EXCEPT !.pc = "s_dir", !.dirs = directories,
                          !.fetched = <<rootPath>>,
                          !.cat = IF Len(rootSongs) > 0
                                  THEN <<[name |-> <<"Root">>, path |-> rootPath,
                                          songs |-> rootSongs]>>
                                  ELSE <<>>]]
       \/ sess' = [sess EXCEPT ![p] =
                Done([s EXCEPT !.fetched = <<rootPath>>, !.failed = {rootPath}],
                     "ScanFailed")]
    /\ DbUnchanged /\ EnvUnchanged

\* lines 72-77 and 126-129: the root listing and its directories
ScanRoot(p) ==
    LET s == sess[p]
        rootContents == RemoteRoot(s.repo.repo)
        directories == SelectSeq(rootContents, LAMBDA item : item.type = "dir")
    IN
    /\ s.op = "scan" /\ s.pc = "s_root"
    /\ \/ sess' = [sess EXCEPT ![p] =
                IF directories = <<>>
                THEN Done([s EXCEPT !.fetched = <<rootPath>>], "ok")
                ELSE [s EXCEPT !.pc = "s_dir", !.dirs = directories,
                               !.fetched = <<rootPath>>]]
       \/ sess' = [sess EXCEPT ![p] =     \* the error is logged and thrown again
                Done([s EXCEPT !.fetched = <<rootPath>>, !.failed = {rootPath}],
                     "ScanFailed")]
    /\ DbUnchanged /\ EnvUnchanged

\* the end of the loop, with an empty catalog turned into an error
ScanAdvanceEmptyFails(s) ==
    IF s.dirs # <<>> THEN s
    ELSE IF s.cat = <<>> THEN Done(s, "NoPlayableContent")
    ELSE Done(s, "ok")

\* the loop goes on with the next directory, or the scan returns
ScanAdvance(s) == IF s.dirs = <<>> THEN Done(s, "ok") ELSE s

\* the listing of the next directory, with its error thrown to the caller
ScanDirRethrowing(p) ==
    LET s == sess[p]
        dir == Head(s.dirs)
        songsOf == dirSongs(RemoteDir(s.repo.repo, dir.path))
        listed == [s EXCEPT !.dirs = Tail(@), !.fetched = Append(@, dir.path)]
    IN
    /\ s.op = "scan" /\ s.pc = "s_dir"
    /\ \/ sess' = [sess EXCEPT ![p] = ScanAdvance(
                IF Len(songsOf) > 0
                THEN [listed EXCEPT !.cat = Append(@, [name |-> formatPlaylistName(dir.name),
                                                       path |-> dir.path,
                                                       songs |-> songsOf])]
                ELSE listed)]
       \/ sess' = [sess EXCEPT ![p] =
                Done([listed EXCEPT !.failed = @ \cup {dir.path}], "ScanFailed")]
    /\ DbUnchanged /\ EnvUnchanged

\* lines 79-123: the listing of the next directory
ScanDir(p) ==
    LET s == sess[p]
        dir == Head(s.dirs)
        songsOf == dirSongs(RemoteDir(s.repo.repo, dir.path))
        listed == [s EXCEPT !.dirs = Tail(@), !.fetched = Append(@, dir.path)]
    IN
    /\ s.op = "scan" /\ s.pc = "s_dir"
    /\ \/ sess' = [sess EXCEPT ![p] = ScanAdvance(
                IF Len(songsOf) > 0
                THEN [listed EXCEPT !.cat = Append(@, [name |-> formatPlaylistName(dir.name),
                                                       path |-> dir.path,
                                                       songs |-> songsOf])]
                ELSE listed)]
       \/ sess' = [sess EXCEPT ![p] =     \* console.warn, continue
                ScanAdvance([listed EXCEPT !.failed = @ \cup {dir.path}])]
    /\ DbUnchanged /\ EnvUnchanged

ScanUrls == {UrlMusic, UrlMusicGit, UrlEmpty}

ScanNext ==
    \/ \E url \in ScanUrls : ScanStart("s1", url, TRUE)
    \/ ScanRoot("s1")
    \/ ScanDir("s1")

ScanSpec == Init /\ [][ScanNext]_vars

(***************************************************************************)
(* Specifications.                                                         *)
(* Spec: the handlers run one after the other (one session), and requests  *)
(* may fail.                                                               *)
(* ConcSpec: two sessions, each running one handler; the two handlers      *)
(* interleave at their awaits, and no request fails.                       *)
(***************************************************************************)
Handler(p, urls, texts, again) ==
    \/ AddSourceHandler(p, urls, again)
    \/ BulkImportHandler(p, texts, again)
    \/ RefreshHandler(p, again)

Next == Handler("s1", AddUrls, BulkTexts, TRUE)

Spec == Init /\ [][Next]_vars

ConcInit == InitLibrary /\ faults = MaxFaults

ConcNext == \E p \in Sessions : Handler(p, ConcAddUrls, ConcBulkTexts, FALSE)

ConcSpec == ConcInit /\ [][ConcNext]_vars

(***************************************************************************)
(* GitHubService.generateUniqueLink called on its own, once per session,   *)
(* in pages served from any of the origins.                                *)
(***************************************************************************)
LinkRepos == {parseGitHubUrl(url) : url \in ScanUrls}
LinkPaths ==
    UNION {{SeedCatalog[k].songs[j].path : j \in DOMAIN SeedCatalog[k].songs}
              : k \in DOMAIN SeedCatalog}

LinkDerive(p, origin, repoInfo, filePath) ==
    /\ sess[p].pc = "idle"
    /\ sess' = [sess EXCEPT ![p] =
            [IdleSess EXCEPT !.op = "link", !.pc = "done", !.repo = repoInfo,
                !.derived = [origin |-> origin, filePath |-> filePath,
                             link |-> generateUniqueLinkAt(origin, repoInfo.owner,
                                                           repoInfo.repo, filePath)]]]
    /\ DbUnchanged /\ EnvUnchanged

LinkNext ==
    \E p \in Sessions, origin \in Origins, repoInfo \in LinkRepos,
       filePath \in LinkPaths : LinkDerive(p, origin, repoInfo, filePath)

LinkSpec == Init /\ [][LinkNext]_vars

(***************************************************************************)
(* One LibraryPage whose user clicks Sync buttons while refreshes are in   *)
(* flight: handleRefreshSource is async, so the handlers started by the    *)
(* clicks interleave at their awaits and share the page's `refreshing`.    *)
(* The library has two sources: the seed, and the source that u1's         *)
(* add-source import of UrlEmpty at time 2 has left behind.                *)
(***************************************************************************)
MaxSyncs == 3
SyncPage == "s1"
SyncUser == "u2"

SyncSources ==
    SeedSources \cup {[id |-> 2, name |-> typedName(SeedUser), drive_link |-> UrlEmpty,
                       created_by |-> SeedUser, last_synced |-> 2]}

SyncInit ==
    /\ sources = SyncSources /\ playlists = SeedPlaylists /\ songs = SeedSongs
    /\ clock = 2 /\ ops = 0 /\ faults = MaxFaults
    /\ sess = [p \in Sessions |-> IdleSess]
    /\ refreshing = [p \in Sessions |-> NoSource]

SyncNext ==
    \E p \in Sessions :
        \/ \E source \in sources :
                RefreshStartIn(p, SyncPage, MaxSyncs, SyncUser, source, TRUE)
        \/ RefreshScan(p)
        \/ RefreshExisting(p)
        \/ RefreshInsertPlaylist(p)
        \/ RefreshFindSong(p)
        \/ RefreshWriteSong(p)
        \/ RefreshTouch(p)

SyncSpec == SyncInit /\ [][SyncNext]_vars

(***************************************************************************)
(* Properties.                                                             *)
(***************************************************************************)
SourcesOf(tb, link) == {s \in tb.sources : s.drive_link = link}

UserPlaylistsOf(tb, link, user) ==
    {q \in tb.playlists : q.user_id = user /\ \E s \in SourcesOf(tb, link) : q.source_id = s.id}

UserHasPlaylistOf(tb, link, user) == UserPlaylistsOf(tb, link, user) # {}

SongsIn(tb, pls) == {g \in tb.songs : \E q \in pls : g.playlist_id = q.id}

LinksOf(s) == {s.urls[i] : i \in DOMAIN s.urls}

Identity(rows) ==
    {[id |-> r.id, name |-> r.name, created_by |-> r.created_by,
      drive_link |-> r.drive_link] : r \in rows}

\* the unique link generateUniqueLink derives for the file of a song row
derivedLink(song) == SubSeq(song.unique_link, 1, 5)

Quiescent == \A p \in Sessions : sess[p].pc \in {"idle", "done"}

C2_BulkImportGuarded ==
    \A p \in Sessions :
        LET s == sess[p] IN
        (s.op = "bulk" /\ s.pc = "done") =>
            \A i \in DOMAIN s.urls :
                UserHasPlaylistOf(s.before, s.urls[i], s.user) =>
                    /\ s.results[i].status = "error"
                    /\ UserPlaylistsOf(Tables, s.urls[i], s.user)
                            = UserPlaylistsOf(s.before, s.urls[i], s.user)
                    /\ SongsIn(Tables, UserPlaylistsOf(Tables, s.urls[i], s.user))
                            = SongsIn(s.before, UserPlaylistsOf(s.before, s.urls[i], s.user))

\* C3: no two song rows are of the same file, that is have the same derived
\* unique link (owner, repo, file path).
C3_OneSongPerFile ==
    \A a, b \in songs : derivedLink(a) = derivedLink(b) => a = b

\* C4: no two playlist rows have the same user, source and folder path.
C4_OnePlaylistPerFolder ==
    \A a, b \in playlists :
        (a.user_id = b.user_id /\ a.source_id = b.source_id
            /\ a.folder_path = b.folder_path) => a = b

\* C5: once concurrent imports by two different users have ended, no two
\* source rows have the same link.
C5_OneSourcePerLink ==
    (/\ Quiescent
     /\ \A p \in Sessions : sess[p].op \in {"add", "bulk"}
     /\ sess["s1"].user # sess["s2"].user)
        => \A a, b \in sources : a.drive_link = b.drive_link => a = b

\* C6: a bulk import or a refresh whose insert of a song loses the race on
\* unique_link does not log the conflict as an error and drop the song.
C6_ConflictReResolved ==
    \A p \in Sessions :
        sess[p].op \in {"bulk", "refresh"} => "conflict" \notin sess[p].log

\* C7: an import whose scan fails or finds no playlist candidate leaves the
\* three tables as they were when it started.
C7_FailedScanWritesNothing ==
    \A p \in Sessions :
        LET s == sess[p] IN
        /\ (s.op = "add" /\ s.pc = "done"
                /\ s.result \in {"ScanFailed", "NoPlayableContent"})
            => Tables = s.before
        /\ (s.op = "bulk" /\ s.pc = "done"
                /\ \A i \in DOMAIN s.results :
                      s.results[i].error \in {"GitHub API error",
                                              "No audio files found in repository"})
            => Tables = s.before

C9_ImportTouchesLastSynced ==
    \A p \in Sessions :
        LET s == sess[p] IN
        (s.op = "add" /\ s.pc = "done" /\ s.result = "ok"
            /\ SourcesOf(s.before, s.urls[1]) # {})
            => \A r \in SourcesOf(Tables, s.urls[1]) : r.last_synced = clock

\* C9 as amended: an add-source or bulk import leaves the source rows of every
\* link that had one when it started unchanged, last_synced included.
C9_ImportLeavesSourceRow ==
    \A p \in Sessions :
        LET s == sess[p] IN
        s.op \in {"add", "bulk"} =>
            \A l \in LinksOf(s) :
                SourcesOf(s.before, l) # {} => SourcesOf(Tables, l) = SourcesOf(s.before, l)

C9_Witness ==
    \E p \in Sessions :
        LET s == sess[p] IN
        /\ s.op = "add" /\ s.pc = "done" /\ s.result = "ok" /\ s.nPl > 0
        /\ \E r \in SourcesOf(Tables, s.urls[1]) :
                r \in s.before.sources /\ r.last_synced < clock

\* the refresh that has ended in session p came right after a refresh of the
\* same source by the same user that ended without a logged failure
SecondRefresh(p) ==
    LET s == sess[p] IN
    /\ s.op = "refresh" /\ s.pc = "done"
    /\ s.prev.op = "refresh" /\ s.prev.user = s.user /\ s.prev.src = s.src
    /\ s.prev.result \in {"ok", "NoNewPlaylists"}
    /\ s.prev.log = {}

ScanEnded(p) == sess[p].op = "scan" /\ sess[p].pc = "done"

\* the entries of a listing that are files with one of the audio extensions
QualifyingFiles(listing) ==
    {listing[i] : i \in {j \in DOMAIN listing :
        /\ listing[j].type = "file"
        /\ toLowerCase(listing[j].name.ext)
                \in {"mp3", "wav", "flac", "aac", "ogg", "m4a", "wma"}}}

CatalogPaths(cat) == {cat[i].path : i \in DOMAIN cat}

CatalogSongPaths(cat) ==
    UNION {{cat[i].songs[k].path : k \in DOMAIN cat[i].songs} : i \in DOMAIN cat}

\* C16: a scan whose root listing succeeds does not fail, whatever directory
\* listings fail, and its catalog holds exactly the directories whose listing
\* succeeded and has a qualifying audio file.
C16_PartialFailureTolerated ==
    \A p \in Sessions :
        LET s == sess[p] IN
        (ScanEnded(p) /\ rootPath \notin s.failed) =>
            /\ s.result = "ok"
            /\ CatalogPaths(s.cat)
                 = {d \in RootDirs(s.repo.repo) \ s.failed :
                        QualifyingFiles(RemoteDir(s.repo.repo, d)) # {}}

C16_Witness ==
    \E p \in Sessions :
        LET s == sess[p] IN
        /\ ScanEnded(p) /\ s.result = "ok" /\ s.cat # <<>>
        /\ \E d \in s.failed : QualifyingFiles(RemoteDir(s.repo.repo, d)) # {}

\* C17: every entry of the catalog of a scan has a song, every song of it is a
\* file of the entry's directory with an audio extension (in any case), and a
\* directory listed without such a file gives no entry and no error.
C17_OnlyAudioCandidates ==
    \A p \in Sessions :
        LET s == sess[p] IN
        s.op = "scan" =>
            /\ \A i \in DOMAIN s.cat :
                /\ Len(s.cat[i].songs) > 0
                /\ \A k \in DOMAIN s.cat[i].songs :
                      \E f \in QualifyingFiles(RemoteDir(s.repo.repo, s.cat[i].path)) :
                          f.path = s.cat[i].songs[k].path
            /\ (s.pc = "done" /\ rootPath \notin s.failed) =>
                  /\ s.result = "ok"
                  /\ \A d \in RootDirs(s.repo.repo) \ s.failed :
                        QualifyingFiles(RemoteDir(s.repo.repo, d)) = {}
                            => d \notin CatalogPaths(s.cat)

C17_Witness ==
    \E p \in Sessions :
        LET s == sess[p] IN
        /\ ScanEnded(p) /\ s.result = "ok"
        /\ \E i \in DOMAIN s.cat :
              Len(s.cat[i].songs) < Len(RemoteDir(s.repo.repo, s.cat[i].path))
        /\ \E d \in RootDirs(s.repo.repo) \ s.failed :
              /\ RemoteDir(s.repo.repo, d) # <<>>
              /\ d \notin CatalogPaths(s.cat)

\* C18 as stated: a scan whose root listing fails, or none of whose
\* directories gives a candidate, fails with NoPlayableContent.
C18_EmptyScanFails ==
    \A p \in Sessions :
        (ScanEnded(p) /\ (rootPath \in sess[p].failed \/ sess[p].cat = <<>>))
            => sess[p].result = "NoPlayableContent"

\* C18 as amended: a scan fails, with the error of the listing request, exactly
\* when its root listing fails; when the root is listed it returns its
\* catalog, an empty one included.
C18_ScanFailsOnRootOnly ==
    \A p \in Sessions :
        LET s == sess[p] IN
        ScanEnded(p) =>
            /\ rootPath \in s.failed => (s.result = "ScanFailed" /\ s.cat = <<>>)
            /\ rootPath \notin s.failed => s.result = "ok"

C18_Witness ==
    \E p \in Sessions :
        LET s == sess[p] IN
        /\ ScanEnded(p) /\ s.result = "ok" /\ s.cat = <<>>
        /\ s.failed = RootDirs(s.repo.repo)

\* C19: the songs of the catalog of a scan are exactly the qualifying files of
\* the root directories listed; no file of the root and no file of a directory
\* inside a root directory is among them; the listings requested are the root
\* and then each root directory once.
C19_TwoLevels ==
    \A p \in Sessions :
        LET s == sess[p]
            repo == s.repo.repo
            subDirs(d) == {RemoteDir(repo, d)[i].path : i \in
                              {j \in DOMAIN RemoteDir(repo, d) :
                                    RemoteDir(repo, d)[j].type = "dir"}}
        IN
        ScanEnded(p) =>
            /\ rootPath \in s.failed => s.fetched = <<rootPath>>
            /\ rootPath \notin s.failed =>
                /\ CatalogSongPaths(s.cat)
                     = {f.path : f \in UNION {QualifyingFiles(RemoteDir(repo, d)) :
                                                d \in RootDirs(repo) \ s.failed}}
                /\ \A f \in QualifyingFiles(RemoteRoot(repo)) :
                      f.path \notin CatalogSongPaths(s.cat)
                /\ \A d \in RootDirs(repo) : \A e \in subDirs(d) :
                      \A f \in QualifyingFiles(RemoteDir(repo, e)) :
                          f.path \notin CatalogSongPaths(s.cat)
                /\ Len(s.fetched) = 1 + Cardinality(RootDirs(repo))
                /\ {s.fetched[i] : i \in DOMAIN s.fetched} = {rootPath} \cup RootDirs(repo)

C19_Witness ==
    \E p \in Sessions :
        LET s == sess[p] IN
        /\ ScanEnded(p) /\ s.result = "ok" /\ s.failed = {}
        /\ QualifyingFiles(RemoteRoot(s.repo.repo)) # {}
        /\ \E d \in CatalogPaths(s.cat) :
              \E i \in DOMAIN RemoteDir(s.repo.repo, d) :
                  /\ RemoteDir(s.repo.repo, d)[i].type = "dir"
                  /\ QualifyingFiles(RemoteDir(s.repo.repo,
                                               RemoteDir(s.repo.repo, d)[i].path)) # {}

\* the source row a refresh is of
RefreshedSource(s) == {r \in sources : r.id = s.src}

\* C11: a refresh whose scan succeeds, with or without new playlists, leaves
\* last_synced of its source at the time of the refresh, later than it was.
C11_RefreshTouchesLastSynced ==
    \A p \in Sessions :
        LET s == sess[p] IN
        (s.op = "refresh" /\ s.pc = "done" /\ s.result \in {"ok", "NoNewPlaylists"})
            => \A r \in RefreshedSource(s) :
                  /\ r.last_synced = clock
                  /\ \A b \in s.before.sources : b.id = r.id => b.last_synced < r.last_synced

\* C12: while and after a refresh runs, every playlist row and every song row
\* there was when it started is still there, with every field as it was.
C12_RefreshAppendOnly ==
    \A p \in Sessions :
        LET s == sess[p] IN
        s.op = "refresh" =>
            (s.before.playlists \subseteq playlists /\ s.before.songs \subseteq songs)

C12_Witness ==
    \E p \in Sessions :
        LET s == sess[p] IN
        /\ s.op = "refresh" /\ s.pc = "done" /\ s.result = "ok"
        /\ s.before.songs # {} /\ s.before.playlists # playlists
        /\ s.nSongs = 0 /\ s.log = {}

\* the folder paths the delta of the refresh in s is to hold: those the scan
\* found, less those of the playlists the user had of the source
ExpectedDelta(s) ==
    CatalogPaths(scanRepositoryStructure(s.repo.repo, s.failed))
        \ {q.folder_path : q \in {x \in s.before.playlists :
                                      x.user_id = s.user /\ x.source_id = s.src}}

\* the delta of the refresh in s has just been computed
FreshDelta(s) == s.op = "refresh" /\ s.pc = "pl" /\ Len(s.cat) = s.nPl

C14_FailedRefreshWritesNothing ==
    \A p \in Sessions :
        LET s == sess[p] IN
        (s.op = "refresh" /\ s.pc = "done" /\ s.result = "ScanFailed")
            => Tables = s.before

C14_Witness ==
    \E p \in Sessions :
        LET s == sess[p] IN
        /\ s.op = "refresh" /\ s.pc = "done" /\ s.result = "ScanFailed"
        /\ \E r \in RefreshedSource(s) : r.last_synced < clock

\* what a handler did with a song, read off the songs table it leaves
songOutcome(after) ==
    IF after = songs THEN "untouched"
    ELSE IF Cardinality(after) > Cardinality(songs) THEN "inserted"
    ELSE "repointed"

\* C15: in every database, for every playlist of a user and every song the
\* scan of its source finds, the three handlers, run next, do the same with
\* the song.
C15_UniformSongPolicy ==
    \A q \in playlists : \A src \in {r \in sources : r.id = q.source_id} :
        LET repo == parseGitHubUrl(src.drive_link)
            cat == scanRepositoryStructure(repo.repo, {})
        IN  \A i \in DOMAIN cat : \A k \in DOMAIN cat[i].songs :
                LET song == cat[i].songs[k] IN
                /\ songOutcome(addSongOutcome(q.id, song, repo, q.user_id, clock + 1))
                     = songOutcome(bulkSongOutcome(q.id, song, repo, q.user_id))
                /\ songOutcome(bulkSongOutcome(q.id, song, repo, q.user_id))
                     = songOutcome(refreshSongOutcome(q.id, song, repo, q.user_id))

\* the import in s has dealt with every candidate of a scan: an add-source
\* import that has logged a failed insert or ended well, or an item of a bulk
\* import that did not fail before its playlists
ImportItemEnded(s) ==
    \/ /\ s.op = "add" /\ s.pc = "done"
       /\ (s.result = "ok" \/ s.log \cap {"playlist", "song"} # {})
    \/ /\ s.op = "bulk" /\ s.pc = "b_delay"
       /\ s.results[s.i].error \notin {"GitHub API error", "storage error"}

ImportSucceeded(s) ==
    IF s.op = "add" THEN s.result = "ok" ELSE s.results[s.i].status = "success"

\* the playlists the import in s has created of its source
CreatedPlaylists(s) ==
    {q \in playlists \ s.before.playlists : q.user_id = s.user /\ q.source_id = s.src}

\* the scanned song is in the table: for add-source in the playlist created,
\* for the bulk import under its unique link
SongStored(s, q, song) ==
    IF s.op = "add"
    THEN \E g \in songs : g.playlist_id = q.id /\ g.file_path = song.downloadUrl
    ELSE \E g \in songs :
            g.unique_link = generateUniqueLink(s.repo.owner, s.repo.repo, song.path)

\* the candidates and songs of the scan that the import in s did not store
SkippedItems(s) ==
    LET cat == scanRepositoryStructure(s.repo.repo, s.failed)
        noPlaylist == {i \in DOMAIN cat :
                          ~\E q \in CreatedPlaylists(s) : q.folder_path = cat[i].path}
        noSong == {ik \in (DOMAIN cat \ noPlaylist) \X (1..3) :
                      /\ ik[2] \in DOMAIN cat[ik[1]].songs
                      /\ \A q \in CreatedPlaylists(s) :
                            q.folder_path = cat[ik[1]].path
                                => ~SongStored(s, q, cat[ik[1]].songs[ik[2]])}
    IN  Cardinality(noPlaylist) + Cardinality(noSong)

\* C20: an import that has got to its playlists ends well whatever insert
\* fails, and what it leaves out (a candidate with its songs, or a song) is
\* no more than one item for each request that failed.
C20_PerItemFailureTolerated ==
    \A p \in Sessions :
        LET s == sess[p] IN
        (ImportItemEnded(s) /\ "conflict" \notin s.log) =>
            /\ ImportSucceeded(s)
            /\ SkippedItems(s) <= faults - (IF s.failed = {} THEN 0 ELSE 1)

C20_Witness ==
    \E p \in Sessions :
        LET s == sess[p] IN
        /\ ImportItemEnded(s) /\ ImportSucceeded(s)
        /\ "playlist" \in s.log
        /\ SkippedItems(s) = 1
        /\ CreatedPlaylists(s) # {}

(***************************************************************************)
(* The bulk import as a batch                                              *)
(***************************************************************************)
\* the repository an item of a batch names
ItemRepo(url) == parseGitHubUrl(url).repo

\* the bulk import in s has reached its results step (lines 272-276)
AtResultsStep(s) == s.op = "bulk" /\ s.pc = "done" /\ s.result = "ok"

\* C21: when a bulk import reaches the results step, every item of the list
\* has been processed: its status is success or error, none is pending or
\* processing, whatever happened to the items before it; and the status is
\* the item's own: a success has a source with the item's link and a repository
\* with playable content, "no audio files" names a repository whose scan can
\* come back empty, and a thrown error is recorded on the item it hit.
C21_BulkItemsIsolated ==
    \A p \in Sessions :
        LET s == sess[p] IN
        AtResultsStep(s) =>
            /\ s.i = Len(s.urls)
            /\ \A k \in DOMAIN s.results :
                LET r == s.results[k] IN
                /\ r.url = s.urls[k]
                /\ r.status \in {"success", "error"}
                /\ r.status = "success" =>
                        /\ r.error = ""
                        /\ SourcesOf(Tables, r.url) # {}
                        /\ scanRepositoryStructure(ItemRepo(r.url), {}) # <<>>
                /\ r.status = "error" =>
                        /\ r.playlistCount = 0
                        /\ r.error \in {"No audio files found in repository",
                                        "GitHub API error", "storage error"}
                        /\ r.error = "No audio files found in repository" =>
                              \E failed \in SUBSET RootDirs(ItemRepo(r.url)) :
                                /\ Cardinality(failed) <= faults
                                /\ scanRepositoryStructure(ItemRepo(r.url), failed) = <<>>

\* a batch of two whose first item ended in a thrown error and whose second
\* item was imported with its playlists
C21_Witness ==
    \E p \in Sessions :
        LET s == sess[p] IN
        /\ AtResultsStep(s) /\ Len(s.urls) = 2
        /\ s.results[1].status = "error"
        /\ s.results[1].error \in {"GitHub API error", "storage error"}
        /\ s.results[2].status = "success"
        /\ s.results[2].playlistCount > 0

\* C22: a bulk import handles its items one at a time in the order of the
\* list, and before item k starts the delay has elapsed k - 1 times, once
\* after each item before it, however that item ended.
C22_DelayBetweenItems ==
    \A p \in Sessions :
        LET s == sess[p] IN
        (s.op = "bulk" /\ s.pc # "done" /\ s.i >= 1) =>
            /\ \A k \in DOMAIN s.results :
                /\ k < s.i => s.results[k].status \in {"success", "error"}
                /\ k > s.i => s.results[k].status = "pending"
            /\ s.delays = s.i - 1

(***************************************************************************)
(* Identity and counts of what a handler stores                            *)
(***************************************************************************)
\* the handler in s has ended (an import, a bulk import or a refresh)
Ended(s) == s.op \in {"add", "bulk", "refresh"} /\ s.pc = "done"

\* the rows the handler in s has inserted
InsertedPlaylists(s) == playlists \ s.before.playlists
InsertedSongs(s) == {g \in songs : g.id \notin {h.id : h \in s.before.songs}}

\* C24: a song row inserted by an import, a bulk import or a refresh carries
\* as unique_link exactly generateUniqueLink(owner, repo, filePath) of its file
\* in the repository of its source, with nothing of the importing user or of
\* the time of the import in it.
C24_StoredLinkIsDerived ==
    \A p \in Sessions :
        LET s == sess[p] IN
        Ended(s) =>
            \A g \in InsertedSongs(s) :
                \E q \in playlists, src \in sources :
                    /\ q.id = g.playlist_id /\ src.id = q.source_id
                    /\ g.unique_link =
                          generateUniqueLink(parseGitHubUrl(src.drive_link).owner,
                                             parseGitHubUrl(src.drive_link).repo,
                                             g.file_path)

\* the playlists the bulk import in s has inserted for item k of its list
ItemPlaylists(s, k) ==
    {q \in InsertedPlaylists(s) :
        \E src \in sources : src.id = q.source_id /\ src.drive_link = s.urls[k]}

\* C25: the counts a handler reports are the rows it has inserted: add-source
\* and refresh report as many playlists and as many songs as they inserted,
\* and the playlistCount of a successful item of a bulk import is the number
\* of playlists inserted for that item.
C25_ReportCountsExact ==
    \A p \in Sessions :
        LET s == sess[p] IN
        /\ (Ended(s) /\ s.op \in {"add", "refresh"} /\ s.result = "ok") =>
                /\ s.nPl = Cardinality(InsertedPlaylists(s))
                /\ s.nSongs = Cardinality(InsertedSongs(s))
        /\ AtResultsStep(s) =>
                \A k \in DOMAIN s.results :
                    s.results[k].status = "success" =>
                        s.results[k].playlistCount = Cardinality(ItemPlaylists(s, k))

\* the song rows of playlist q in the tables tb
SongRowsOf(tb, q) == {g \in tb.songs : g.playlist_id = q.id}

C27_NoEmptyPlaylists ==
    \A p \in Sessions :
        LET s == sess[p] IN
        (Ended(s) /\ s.log = {} /\ faults = 0) =>
            /\ \A q \in InsertedPlaylists(s) : SongRowsOf(Tables, q) # {}
            /\ \A q \in s.before.playlists :
                    SongRowsOf(s.before, q) # {} => SongRowsOf(Tables, q) # {}

\* C29: no two source rows name the same repository: two rows whose links
\* parse to the same (owner, repo) are the same row, whatever spelling of
\* the URL the imports were given.
C29_OneSourcePerRepository ==
    \A a, b \in sources :
        parseGitHubUrl(a.drive_link) = parseGitHubUrl(b.drive_link) => a = b

\* C30: when two add-source imports of one link by one user, run from two
\* sessions, have both ended, at most one of them has created playlists and,
\* if one has, the other has ended with AlreadyImported; the user has no two
\* playlists of the same source and folder.
C30_GuardUnderInterleaving ==
    LET a == sess["s1"]
        b == sess["s2"]
    IN
    (/\ Quiescent
     /\ a.op = "add" /\ b.op = "add"
     /\ a.user = b.user /\ a.urls = b.urls)
        => /\ ~(a.nPl > 0 /\ b.nPl > 0)
           /\ a.nPl > 0 => b.result = "AlreadyImported"
           /\ b.nPl > 0 => a.result = "AlreadyImported"
           /\ \A q, r \in playlists :
                (q.user_id = a.user /\ r.user_id = a.user
                    /\ q.source_id = r.source_id /\ q.folder_path = r.folder_path)
                        => q = r

\* the handler in s is a refresh that has not finished
RefreshInFlight(s) == s.op = "refresh" /\ s.pc # "done"

\* C28: while a refresh of a source is in flight in a page, the page's
\* `refreshing` is that source, so that its Sync button is disabled, and no
\* other refresh of the same source is in flight in the page, whatever
\* refreshes of other sources have started or finished meanwhile.
C28_OneRefreshPerSource ==
    \A p \in Sessions :
        RefreshInFlight(sess[p]) =>
            /\ refreshing[sess[p].page] = sess[p].src
            /\ \A q \in Sessions \ {p} :
                    (RefreshInFlight(sess[q]) /\ sess[q].page = sess[p].page)
                        => sess[q].src # sess[p].src

\* C23: two calls of generateUniqueLink with the same owner, repo and
\* filePath return the same link, in whatever page each of them runs.
C23_LinkDependsOnInputsOnly ==
    \A p, q \in Sessions :
        (/\ sess[p].op = "link" /\ sess[q].op = "link"
         /\ sess[p].repo = sess[q].repo
         /\ sess[p].derived.filePath = sess[q].derived.filePath)
            => sess[p].derived.link = sess[q].derived.link
====
